---- MODULE Spec2Model ----
(***************************************************************************)
(* Model of the Twilio <-> ElevenLabs media relay.                         *)
(*                                                                         *)
(* One bridge session (one /media-stream WebSocket) is modelled, in the    *)
(* two implementations the repository holds:                               *)
(*   impl = "index"    src/index.js lines 239-515: signed URL per          *)
(*                     connection, reconnect with backoff, idle timer,     *)
(*                     re-queue of AI messages that arrive before start;   *)
(*   impl = "buffered" src/unnamed/part_002 lines 75-182: one AI socket,   *)
(*                     caller audio buffered until the AI peer is ready.   *)
(* Every event-loop callback is one action.  Timers carry no clock: a      *)
(* pending timer may fire at any later step.                               *)
(*                                                                         *)
(* The HTTP control plane of src/index.js (lines 114-237: outbound_call,   *)
(* call_status, transcripts) is modelled apart from the session, with      *)
(*   impl = "control": the counters, the context registry and the calls    *)
(*                     asked of the telephony provider.                    *)
(* The process itself (gracefulShutdown, lines 517-530) is the variable     *)
(* proc.                                                                   *)
(***************************************************************************)
EXTENDS Integers, Sequences, FiniteSets, TLC

\* ------------------------------------------------------------------ bounds
MaxConns == 3        \* AI WebSockets one session may create
MaxMedia == 2        \* telephony `media` events of one session
MaxAiMsgs == 2       \* AI messages of one session
MaxRequests == 4     \* control-plane requests of one run
MaxBad == 2          \* frames of one session that fail JSON.parse
MaxSignals == 2      \* SIGINT / SIGTERM signals the process receives
MaxClock == 26       \* hours of clock time one run covers
MaxSweepCalls == 2   \* calls placed while the clock runs

\* AI message types that relay audio and control, and those that carry a
\* transcript turn.
RelayTypes == {"conversation_initiation_metadata", "audio", "interruption", "ping"}
TranscriptTypes == {"user_transcript", "agent_response"}

\* A session is explored under each of these traffic profiles: many sockets
\* with little traffic, fewer sockets with more caller audio or more AI
\* messages, one socket whose messages are transcript turns, or one socket
\* with frames that do not parse.
Profiles ==
  { [conns |-> MaxConns,     media |-> 1,        ai |-> 1,
     types |-> RelayTypes, bad |-> 0],
    [conns |-> MaxConns - 1, media |-> MaxMedia, ai |-> 1,
     types |-> RelayTypes, bad |-> 0],
    [conns |-> MaxConns - 1, media |-> 1,        ai |-> MaxAiMsgs,
     types |-> RelayTypes, bad |-> 0],
    [conns |-> 1,            media |-> 0,        ai |-> MaxAiMsgs,
     types |-> TranscriptTypes, bad |-> 0],
    [conns |-> 1,            media |-> 1,        ai |-> 1,
     types |-> RelayTypes, bad |-> MaxBad] }

\* --------------------------------------------------------- program constants
\* Read from the environment (default 3); the sessions modelled here run with
\* MAX_ELEVENLABS_RETRIES=2, the setting of scenario S5.
MAX_ELEVENLABS_RETRIES == 2

Null == "<null>"
StreamIds == {"SID1", "SID2"}
AiTypes == RelayTypes \cup TranscriptTypes
\* message.user_transcript?.text / message.agent_response?.text: missing
\* (written "") or a text.
Texts == {"", "hi"}
\* call.sid values the telephony provider hands out
CallSids == {"CA1", "CA2"}
WsIds == 1..MaxConns
\* genId() values: every outbound_call request mints the next one
ReqIds == 1..MaxRequests

VARIABLES
  impl,               \* which implementation serves the session
  budget,             \* the traffic profile this session is explored under
  context,            \* callContextMap[reqId] || {} : script, persona, context
  twState,            \* telephony socket: open | closing | closed
  streamSid,          \* let streamSid = null
  conversationActive, \* index.js: let conversationActive = false
  elevenLabsReady,    \* part_002: let elevenLabsReady = false
  audioBuffer,        \* part_002: let audioBuffer = []
  elevenLabsWs,       \* id of the socket the variable holds, 0 = null
  wsState,            \* readyState of every AI socket created so far
  reconnectAttempts,  \* index.js: let reconnectAttempts = 0
  closed,             \* index.js: let closed = false
  firstConnection,    \* index.js: let firstConnection = true
  fetching,           \* signed-URL requests in flight
  timers,             \* delays of the pending setTimeout(connectElevenLabs, ...)
  idleTimer,          \* connectionTimeout: pending | fired | cleared
  requeue,            \* AI messages waiting in a 100 ms setTimeout
  metrics,            \* the process-wide counters
  startSid,           \* history: stream id of the latest `start` event delivered
  mediaIn,            \* history: media payloads the telephony socket delivered
  aiIn,               \* history: number of AI messages delivered
  aiSent,             \* history: every elevenLabsWs.send call
  twSent,             \* history: every connection.send call
  pings,              \* history: pings delivered by an AI socket
  metaSeen,           \* history: sockets that delivered initiation metadata
  turns,              \* history: every addTranscript(role, text) call
  transcripts,        \* const transcripts = {} : its keys are the DOMAIN
  callContextMap,     \* const callContextMap = {} : its keys are the DOMAIN
  placed,             \* twilioClient.calls.create calls: pending, created, failed
  http,               \* history: every control-plane request and its answer
  dropped,            \* history: frames dropped because JSON.parse threw
  proc,               \* the process: running, shutting down, or exited
  now                 \* Date.now(), in ms since the process started

vars == <<impl, budget, context, twState, streamSid, conversationActive, elevenLabsReady,
          audioBuffer, elevenLabsWs, wsState, reconnectAttempts, closed,
          firstConnection, fetching, timers, idleTimer, requeue, metrics,
          startSid, mediaIn, aiIn, aiSent, twSent, pings, metaSeen, turns, transcripts, callContextMap, placed, http, dropped,
          proc, now>>

\* ----------------------------------------------------------------- helpers

\* The process before any signal: no shutdown timer armed, not exited (code -1).
\* serverClosed and timerFired record which callback of gracefulShutdown ran.
Running == [state |-> "running", timers |-> 0, code |-> -1,
            serverClosed |-> FALSE, timerFired |-> FALSE]

\* JavaScript truthiness of streamSid: null and "" are falsy.
Falsy(s) == s \in {Null, ""}

\* Buffer.from(payload, "base64").toString("base64"): the bytes are decoded and
\* encoded again, so an unpadded payload comes out in padded form.
B64RoundTrip(p) == [p EXCEPT !.padded = TRUE]

\* readyState === WebSocket.OPEN of the socket the variable holds
IsOpen(w) == w # 0 /\ wsState[w] = "open"

\* One elevenLabsWs.send(JSON.stringify(frame)) call.  ws delivers the frame
\* only from an OPEN socket: in CONNECTING it throws (every call site of
\* index.js catches), in CLOSING or CLOSED the frame is discarded.
\* `via` names the call site.
WsSend(log, w, kind, val, via) ==
  Append(log, [ws |-> w, kind |-> kind, val |-> val, via |-> via,
               ok |-> IsOpen(w)])

\* One connection.send(JSON.stringify(frame)) call to the telephony socket.
TwSend(log, event, sid, val) ==
  Append(log, [event |-> event, streamSid |-> sid, val |-> val,
               ok |-> (twState = "open")])

\* elevenLabsWs.close() on an OPEN socket starts the closing handshake.
WsClose(w) == [wsState EXCEPT ![w] = "closing"]

\* connection.close(): starts closing the telephony socket if it is open.
ConnectionClose == IF twState = "open" THEN "closing" ELSE twState

\* ------------------------------------------------- src/index.js: the session

\* The contexts a session may find in callContextMap: none stored (every field
\* undefined, written ""), one with a script, or one with a persona alone.
NoContext == [script |-> "", persona |-> "", context |-> "", callSid |-> ""]
Contexts ==
  {NoContext,
   [script |-> "hello", persona |-> "", context |-> "", callSid |-> "CA1"],
   [script |-> "", persona |-> "p", context |-> "", callSid |-> "CA1"]}

\* const reqId = req.query.reqId of the session
sessionReqId == 1

\* Mutant of Backoff: the exponent is the number of attempts itself.
BackoffFromZero(attempts) == 1000 * 2 ^ attempts

\* 1000 * Math.pow(2, reconnectAttempts - 1)
Backoff(attempts) == 1000 * 2 ^ (attempts - 1)

\* State right after the /media-stream handler has run: the variables are
\* declared, connectElevenLabs() has been called and awaits getSignedUrl, the
\* idle timer is armed, the transcript of the call is initialised.  A session
\* with a stored context is explored under the profile with the most sockets
\* and under the transcript profile.
InitIndex ==
  /\ impl = "index"
  /\ budget \in Profiles
  /\ context \in Contexts
  /\ (context # NoContext =>
        budget.conns = MaxConns \/ budget.types = TranscriptTypes)
  /\ twState = "open"
  /\ streamSid = Null
  /\ conversationActive = FALSE
  /\ elevenLabsReady = FALSE
  /\ audioBuffer = <<>>
  /\ elevenLabsWs = 0
  /\ wsState = [w \in WsIds |-> "none"]
  /\ reconnectAttempts = 0
  /\ closed = FALSE
  /\ firstConnection = TRUE
  /\ fetching = 1
  /\ timers = <<>>
  /\ idleTimer = "pending"
  /\ requeue = {}
  /\ metrics = [calls |-> 0, errors |-> 0, activeCalls |-> 0, reconnects |-> 0]
  /\ startSid = Null
  /\ mediaIn = <<>>
  /\ aiIn = 0
  /\ aiSent = <<>>
  /\ twSent = <<>>
  /\ pings = {}
  /\ metaSeen = {}
  /\ turns = <<>>
  /\ transcripts = [c \in {context.callSid} \cap CallSids |-> <<>>]
  /\ callContextMap =
       [r \in {q \in {sessionReqId} : context # NoContext} |->
          [script |-> context.script, persona |-> context.persona,
           context |-> context.context, callSid |-> context.callSid,
           timestamp |-> 0]]
  /\ placed = <<>>
  /\ http = <<>>
  /\ dropped = <<>>
  /\ proc = Running
  /\ now = 0

\* getSignedUrl resolved: new WebSocket(signedUrl), handlers attached.
FetchOk ==
  /\ impl = "index"
  /\ fetching > 0
  /\ elevenLabsWs < budget.conns
  /\ fetching' = fetching - 1
  /\ elevenLabsWs' = elevenLabsWs + 1
  /\ wsState' = [wsState EXCEPT ![elevenLabsWs + 1] = "connecting"]
  /\ UNCHANGED <<impl, budget, context, twState, streamSid,
                 conversationActive, elevenLabsReady, audioBuffer,
                 reconnectAttempts, closed, firstConnection, timers,
                 idleTimer, requeue, metrics, startSid, mediaIn, aiIn, aiSent,
                 twSent, pings, metaSeen, turns, transcripts, callContextMap,
                 placed, http, dropped, proc, now>>

\* Mutant of FetchFail: the failure arms the retry without counting it.
FetchFailUncounted ==
  /\ impl = "index"
  /\ fetching > 0
  /\ fetching' = fetching - 1
  /\ conversationActive' = FALSE
  /\ IF ~closed /\ reconnectAttempts < MAX_ELEVENLABS_RETRIES
       THEN /\ timers' = Append(timers, Backoff(reconnectAttempts + 1))
            /\ UNCHANGED <<twState, reconnectAttempts>>
       ELSE /\ twState' = IF ~closed THEN ConnectionClose ELSE twState
            /\ UNCHANGED <<reconnectAttempts, timers>>
  /\ UNCHANGED <<impl, budget, context, streamSid, elevenLabsReady,
                 audioBuffer, elevenLabsWs, wsState, closed, firstConnection,
                 idleTimer, requeue, metrics, startSid, mediaIn, aiIn, aiSent,
                 twSent, pings, metaSeen, turns, transcripts, callContextMap,
                 placed, http, dropped, proc, now>>

\* getSignedUrl (or the WebSocket constructor) threw: the catch block.
FetchFail ==
  /\ impl = "index"
  /\ fetching > 0
  /\ fetching' = fetching - 1
  /\ conversationActive' = FALSE
  /\ IF ~closed /\ reconnectAttempts < MAX_ELEVENLABS_RETRIES
       THEN /\ reconnectAttempts' = reconnectAttempts + 1
            /\ timers' = Append(timers, Backoff(reconnectAttempts + 1))
            /\ UNCHANGED twState
       ELSE /\ twState' = IF ~closed THEN ConnectionClose ELSE twState
            /\ UNCHANGED <<reconnectAttempts, timers>>
  /\ UNCHANGED <<impl, budget, context, streamSid, elevenLabsReady,
                 audioBuffer, elevenLabsWs, wsState, closed, firstConnection,
                 idleTimer, requeue, metrics, startSid, mediaIn, aiIn, aiSent,
                 twSent, pings, metaSeen, turns, transcripts, callContextMap,
                 placed, http, dropped, proc, now>>

\* A backoff timer fires: connectElevenLabs() runs and requests a signed URL.
ReconnectTimer ==
  /\ impl = "index"
  /\ \E i \in 1..Len(timers) :
       timers' = [j \in 1..(Len(timers) - 1) |->
                    IF j < i THEN timers[j] ELSE timers[j + 1]]
  /\ fetching' = fetching + 1
  /\ UNCHANGED <<impl, budget, context, twState, streamSid,
                 conversationActive, elevenLabsReady, audioBuffer,
                 elevenLabsWs, wsState, reconnectAttempts, closed,
                 firstConnection, idleTimer, requeue, metrics, startSid,
                 mediaIn, aiIn, aiSent, twSent, pings, metaSeen, turns,
                 transcripts, callContextMap, placed, http, dropped, proc, now>>

\* Mutant of HasInitData: only the script is looked at.
HasScript == context.script # ""

\* script || persona || agentContext
HasInitData == context.script # "" \/ context.persona # "" \/ context.context # ""

\* elevenLabsWs.on("open")
AiOpen ==
  /\ impl = "index"
  /\ \E w \in WsIds :
       /\ wsState[w] = "connecting"
       /\ wsState' = [wsState EXCEPT ![w] = "open"]
       /\ aiSent' = IF HasInitData
                      THEN Append(aiSent,
                             [ws |-> elevenLabsWs,
                              kind |-> "conversation_initiation_client_data",
                              val |-> 0, via |-> "open",
                              ok |-> (elevenLabsWs = w \/ IsOpen(elevenLabsWs))])
                      ELSE aiSent
  /\ conversationActive' = TRUE
  /\ reconnectAttempts' = 0
  /\ metrics' = IF firstConnection
                  THEN [metrics EXCEPT !.reconnects = @ + 1]
                  ELSE metrics
  /\ firstConnection' = FALSE
  /\ UNCHANGED <<impl, budget, context, twState, streamSid, elevenLabsReady,
                 audioBuffer, elevenLabsWs, closed, fetching, timers,
                 idleTimer, requeue, startSid, mediaIn, aiIn, twSent, pings,
                 metaSeen, turns, transcripts, callContextMap, placed, http,
                 dropped, proc, now>>

\* Mutant of AiError: the error handler schedules a reconnection as well.
AiErrorReconnects ==
  /\ impl = "index"
  /\ \E w \in WsIds :
       /\ wsState[w] \in {"connecting", "open"}
       /\ wsState' = [wsState EXCEPT ![w] = "closing"]
  /\ conversationActive' = FALSE
  /\ timers' = IF ~closed THEN Append(timers, Backoff(1)) ELSE timers
  /\ UNCHANGED <<impl, budget, context, twState, streamSid, elevenLabsReady,
                 audioBuffer, elevenLabsWs, reconnectAttempts, closed,
                 firstConnection, fetching, idleTimer, requeue, metrics,
                 startSid, mediaIn, aiIn, aiSent, twSent, pings, metaSeen,
                 turns, transcripts, callContextMap, placed, http, dropped,
                 proc, now>>

\* elevenLabsWs.on("error"): ws emits "close" after it.
AiError ==
  /\ impl = "index"
  /\ \E w \in WsIds :
       /\ wsState[w] \in {"connecting", "open"}
       /\ wsState' = [wsState EXCEPT ![w] = "closing"]
  /\ conversationActive' = FALSE
  /\ UNCHANGED <<impl, budget, context, twState, streamSid, elevenLabsReady,
                 audioBuffer, elevenLabsWs, reconnectAttempts, closed,
                 firstConnection, fetching, timers, idleTimer, requeue,
                 metrics, startSid, mediaIn, aiIn, aiSent, twSent, pings,
                 metaSeen, turns, transcripts, callContextMap, placed, http,
                 dropped, proc, now>>

\* Mutant of AiClose: the limit is compared with <=.
AiCloseOffByOne ==
  /\ impl = "index"
  /\ \E w \in WsIds :
       /\ wsState[w] \in {"open", "closing"}
       /\ wsState' = [wsState EXCEPT ![w] = "closed"]
  /\ conversationActive' = FALSE
  /\ IF ~closed /\ reconnectAttempts <= MAX_ELEVENLABS_RETRIES
       THEN /\ reconnectAttempts' = reconnectAttempts + 1
            /\ timers' = Append(timers, Backoff(reconnectAttempts + 1))
            /\ UNCHANGED twState
       ELSE /\ twState' = IF ~closed THEN ConnectionClose ELSE twState
            /\ UNCHANGED <<reconnectAttempts, timers>>
  /\ UNCHANGED <<impl, budget, context, streamSid, elevenLabsReady,
                 audioBuffer, elevenLabsWs, closed, firstConnection, fetching,
                 idleTimer, requeue, metrics, startSid, mediaIn, aiIn, aiSent,
                 twSent, pings, metaSeen, turns, transcripts, callContextMap,
                 placed, http, dropped, proc, now>>

\* elevenLabsWs.on("close")
AiClose ==
  /\ impl = "index"
  /\ \E w \in WsIds :
       /\ wsState[w] \in {"open", "closing"}
       /\ wsState' = [wsState EXCEPT ![w] = "closed"]
  /\ conversationActive' = FALSE
  /\ IF ~closed /\ reconnectAttempts < MAX_ELEVENLABS_RETRIES
       THEN /\ reconnectAttempts' = reconnectAttempts + 1
            /\ timers' = Append(timers, Backoff(reconnectAttempts + 1))
            /\ UNCHANGED twState
       ELSE /\ twState' = IF ~closed THEN ConnectionClose ELSE twState
            /\ UNCHANGED <<reconnectAttempts, timers>>
  /\ UNCHANGED <<impl, budget, context, streamSid, elevenLabsReady,
                 audioBuffer, elevenLabsWs, closed, firstConnection, fetching,
                 idleTimer, requeue, metrics, startSid, mediaIn, aiIn, aiSent,
                 twSent, pings, metaSeen, turns, transcripts, callContextMap,
                 placed, http, dropped, proc, now>>

\* Mutant of handleElevenLabsMessage: the streamSid guard is missing, so a
\* message that arrives before `start` is handled at once.
handleElevenLabsMessageUnguarded(m) ==
  /\ requeue' = requeue \ {m}
  /\ UNCHANGED <<turns, transcripts>>
  /\ twSent' = CASE m.type = "audio" ->
                      TwSend(twSent, "media", streamSid, m.n)
                 [] m.type = "interruption" ->
                      TwSend(twSent, "clear", streamSid, 0)
                 [] OTHER -> twSent
  /\ aiSent' = IF m.type = "ping"
                 THEN WsSend(aiSent, elevenLabsWs, "pong", m.n, "ping")
                 ELSE aiSent

\* Mutant of addTranscript: the turn is put in front of the list.
addTranscriptFirst(store, role, text, n) ==
  IF context.callSid # "" /\ text # ""
    THEN [store EXCEPT ![context.callSid] =
            <<[role |-> role, text |-> text, n |-> n]>> \o @]
    ELSE store

\* transcripts[callSid].push({ role, text, timestamp }) if callSid && text.
\* The timestamp is the time of the push; the turn keeps the arrival number n
\* of its message in its place.
addTranscript(store, role, text, n) ==
  IF context.callSid # "" /\ text # ""
    THEN [store EXCEPT ![context.callSid] =
            Append(@, [role |-> role, text |-> text, n |-> n])]
    ELSE store

\* handleElevenLabsMessage(message, connection).  A message is
\* [type, n, ws, live, text]: n numbers the AI messages of the session in
\* arrival order, ws is the socket that delivered it, live whether that socket
\* was OPEN, text the text of a transcript turn.
handleElevenLabsMessage(m) ==
  IF Falsy(streamSid)
    THEN \* setTimeout(() => handleElevenLabsMessage(message, connection), 100)
         /\ requeue' = requeue \cup {m}
         /\ UNCHANGED <<aiSent, twSent, turns, transcripts>>
    ELSE /\ requeue' = requeue \ {m}
         /\ IF m.type \in TranscriptTypes
              THEN LET role == IF m.type = "user_transcript"
                                THEN "user" ELSE "agent"
                   IN /\ transcripts' =
                           addTranscript(transcripts, role, m.text, m.n)
                      /\ turns' = Append(turns, [role |-> role,
                                                 text |-> m.text, n |-> m.n])
              ELSE UNCHANGED <<turns, transcripts>>
         /\ twSent' = CASE m.type = "audio" ->
                             TwSend(twSent, "media", streamSid, m.n)
                        [] m.type = "interruption" ->
                             TwSend(twSent, "clear", streamSid, 0)
                        [] OTHER -> twSent
         /\ aiSent' = IF m.type = "ping"
                        THEN WsSend(aiSent, elevenLabsWs, "pong", m.n, "ping")
                        ELSE aiSent

\* elevenLabsWs.on("message"): a frame that parses.  ws still delivers frames
\* while the closing handshake runs.
AiMessage ==
  /\ impl = "index"
  /\ aiIn < budget.ai
  /\ \E w \in WsIds, t \in budget.types,
        text \in Texts :
       /\ wsState[w] \in {"open", "closing"}
       /\ t \in RelayTypes => text = ""
       /\ LET m == [type |-> t, n |-> aiIn + 1, ws |-> w,
                    live |-> (wsState[w] = "open"), text |-> text]
          IN /\ handleElevenLabsMessage(m)
             /\ pings' = IF t = "ping" THEN pings \cup {m} ELSE pings
             /\ metaSeen' = IF t = "conversation_initiation_metadata"
                              THEN metaSeen \cup {w} ELSE metaSeen
  /\ aiIn' = aiIn + 1
  /\ UNCHANGED <<impl, budget, context, twState, streamSid,
                 conversationActive, elevenLabsReady, audioBuffer,
                 elevenLabsWs, wsState, reconnectAttempts, closed,
                 firstConnection, fetching, timers, idleTimer, metrics,
                 startSid, mediaIn, callContextMap, placed, http, dropped,
                 proc, now>>

\* elevenLabsWs.on("message"): JSON.parse(data) throws, the catch block logs.
AiBadFrame ==
  /\ impl = "index"
  /\ Len(dropped) < budget.bad
  /\ \E w \in WsIds : wsState[w] \in {"open", "closing"}
  /\ dropped' = Append(dropped, [peer |-> "ai", media |-> Len(mediaIn),
                                 ai |-> aiIn])
  /\ UNCHANGED <<impl, budget, context, twState, streamSid,
                 conversationActive, elevenLabsReady, audioBuffer,
                 elevenLabsWs, wsState, reconnectAttempts, closed,
                 firstConnection, fetching, timers, idleTimer, requeue,
                 metrics, startSid, mediaIn, aiIn, aiSent, twSent, pings,
                 metaSeen, turns, transcripts, callContextMap, placed, http,
                 proc, now>>

\* Mutant of RequeueTimer: a message that still finds no streamSid when its
\* timer fires is given up.
RequeueTimerOnce ==
  /\ impl = "index"
  /\ \E m \in requeue :
       IF Falsy(streamSid)
         THEN /\ requeue' = requeue \ {m}
              /\ UNCHANGED <<aiSent, twSent, turns, transcripts>>
         ELSE handleElevenLabsMessage(m)
  /\ UNCHANGED <<impl, budget, context, twState, streamSid,
                 conversationActive, elevenLabsReady, audioBuffer,
                 elevenLabsWs, wsState, reconnectAttempts, closed,
                 firstConnection, fetching, timers, idleTimer, metrics,
                 startSid, mediaIn, aiIn, pings, metaSeen, callContextMap,
                 placed, http, dropped, proc, now>>

\* The 100 ms timer of a re-queued message fires.  Messages queued at
\* different times fire in any order relative to each other.
RequeueTimer ==
  /\ impl = "index"
  /\ \E m \in requeue : handleElevenLabsMessage(m)
  /\ UNCHANGED <<impl, budget, context, twState, streamSid,
                 conversationActive, elevenLabsReady, audioBuffer,
                 elevenLabsWs, wsState, reconnectAttempts, closed,
                 firstConnection, fetching, timers, idleTimer, metrics,
                 startSid, mediaIn, aiIn, pings, metaSeen, callContextMap,
                 placed, http, dropped, proc, now>>

\* connection.on("message") case "start"
TwStart ==
  /\ impl = "index"
  /\ twState \in {"open", "closing"}
  /\ \E sid \in StreamIds : streamSid' = sid /\ startSid' = sid
  /\ UNCHANGED <<impl, budget, context, twState, conversationActive,
                 elevenLabsReady, audioBuffer, elevenLabsWs, wsState,
                 reconnectAttempts, closed, firstConnection, fetching, timers,
                 idleTimer, requeue, metrics, mediaIn, aiIn, aiSent, twSent,
                 pings, metaSeen, turns, transcripts, callContextMap, placed,
                 http, dropped, proc, now>>

\* connection.on("message") case "media"
TwMedia ==
  /\ impl = "index"
  /\ twState \in {"open", "closing"}
  /\ Len(mediaIn) < budget.media
  /\ \E pad \in BOOLEAN :
       LET payload == [n |-> Len(mediaIn) + 1, padded |-> pad]
       IN /\ mediaIn' = Append(mediaIn, payload)
          /\ aiSent' = IF IsOpen(elevenLabsWs) /\ conversationActive
                         THEN WsSend(aiSent, elevenLabsWs, "user_audio_chunk",
                                     B64RoundTrip(payload), "media")
                         ELSE aiSent   \* a warning is logged at most
  /\ UNCHANGED <<impl, budget, context, twState, streamSid,
                 conversationActive, elevenLabsReady, audioBuffer,
                 elevenLabsWs, wsState, reconnectAttempts, closed,
                 firstConnection, fetching, timers, idleTimer, requeue,
                 metrics, startSid, aiIn, twSent, pings, metaSeen, turns,
                 transcripts, callContextMap, placed, http, dropped, proc, now>>

\* Mutant of TwBadFrame: the frame that does not parse closes the telephony
\* socket.
TwBadFrameFatal ==
  /\ impl = "index"
  /\ Len(dropped) < budget.bad
  /\ twState \in {"open", "closing"}
  /\ dropped' = Append(dropped, [peer |-> "tw", media |-> Len(mediaIn),
                                 ai |-> aiIn])
  /\ twState' = "closing"
  /\ UNCHANGED <<impl, budget, context, streamSid, conversationActive,
                 elevenLabsReady, audioBuffer, elevenLabsWs, wsState,
                 reconnectAttempts, closed, firstConnection, fetching, timers,
                 idleTimer, requeue, metrics, startSid, mediaIn, aiIn, aiSent,
                 twSent, pings, metaSeen, turns, transcripts, callContextMap,
                 placed, http, proc, now>>

\* connection.on("message"): JSON.parse(message) throws, the catch block logs.
TwBadFrame ==
  /\ impl = "index"
  /\ Len(dropped) < budget.bad
  /\ twState \in {"open", "closing"}
  /\ dropped' = Append(dropped, [peer |-> "tw", media |-> Len(mediaIn),
                                 ai |-> aiIn])
  /\ UNCHANGED <<impl, budget, context, twState, streamSid,
                 conversationActive, elevenLabsReady, audioBuffer,
                 elevenLabsWs, wsState, reconnectAttempts, closed,
                 firstConnection, fetching, timers, idleTimer, requeue,
                 metrics, startSid, mediaIn, aiIn, aiSent, twSent, pings,
                 metaSeen, turns, transcripts, callContextMap, placed, http,
                 proc, now>>

\* The teardown stop, close and the idle timer share: if the AI socket is
\* OPEN, send conversation_end on it and close it.
EndConversation ==
  IF IsOpen(elevenLabsWs)
    THEN /\ aiSent' = WsSend(aiSent, elevenLabsWs, "conversation_end", 0, "teardown")
         /\ wsState' = WsClose(elevenLabsWs)
    ELSE UNCHANGED <<aiSent, wsState>>

\* connection.on("message") case "stop"
TwStop ==
  /\ impl = "index"
  /\ twState \in {"open", "closing"}
  /\ closed' = TRUE
  /\ EndConversation
  /\ UNCHANGED <<impl, budget, context, twState, streamSid,
                 conversationActive, elevenLabsReady, audioBuffer,
                 elevenLabsWs, reconnectAttempts, firstConnection, fetching,
                 timers, idleTimer, requeue, metrics, startSid, mediaIn, aiIn,
                 twSent, pings, metaSeen, turns, transcripts, callContextMap,
                 placed, http, dropped, proc, now>>

\* connection.on("close"), both listeners: the teardown and clearTimeout.
TwClose ==
  /\ impl = "index"
  /\ twState \in {"open", "closing"}
  /\ twState' = "closed"
  /\ closed' = TRUE
  /\ EndConversation
  /\ idleTimer' = IF idleTimer = "pending" THEN "cleared" ELSE idleTimer
  /\ UNCHANGED <<impl, budget, context, streamSid, conversationActive,
                 elevenLabsReady, audioBuffer, elevenLabsWs,
                 reconnectAttempts, firstConnection, fetching, timers,
                 requeue, metrics, startSid, mediaIn, aiIn, twSent, pings,
                 metaSeen, turns, transcripts, callContextMap, placed, http,
                 dropped, proc, now>>

\* connection.on("error"): closes the AI socket without conversation_end; the
\* socket's "close" event follows.
TwError ==
  /\ impl = "index"
  /\ twState = "open"
  /\ twState' = "closing"
  /\ closed' = TRUE
  /\ wsState' = IF IsOpen(elevenLabsWs) THEN WsClose(elevenLabsWs) ELSE wsState
  /\ UNCHANGED <<impl, budget, context, streamSid, conversationActive,
                 elevenLabsReady, audioBuffer, elevenLabsWs,
                 reconnectAttempts, firstConnection, fetching, timers,
                 idleTimer, requeue, metrics, startSid, mediaIn, aiIn, aiSent,
                 twSent, pings, metaSeen, turns, transcripts, callContextMap,
                 placed, http, dropped, proc, now>>

\* connectionTimeout fires after MEDIA_STREAM_TIMEOUT_MS.
IdleTimeout ==
  /\ impl = "index"
  /\ idleTimer = "pending"
  /\ idleTimer' = "fired"
  /\ closed' = (closed \/ IsOpen(elevenLabsWs))
  /\ EndConversation
  /\ UNCHANGED <<impl, budget, context, twState, streamSid,
                 conversationActive, elevenLabsReady, audioBuffer,
                 elevenLabsWs, reconnectAttempts, firstConnection, fetching,
                 timers, requeue, metrics, startSid, mediaIn, aiIn, twSent,
                 pings, metaSeen, turns, transcripts, callContextMap, placed,
                 http, dropped, proc, now>>

Next ==
  \/ FetchOk
  \/ FetchFail
  \/ ReconnectTimer
  \/ AiOpen
  \/ AiMessage
  \/ AiError
  \/ AiClose
  \/ RequeueTimer
  \/ TwStart
  \/ TwMedia
  \/ TwStop
  \/ TwClose
  \/ TwError
  \/ IdleTimeout
  \/ AiBadFrame
  \/ TwBadFrame

Spec == InitIndex /\ [][Next]_vars

\* A further /media-stream WebSocket is opened with the request id of this
\* call: its handler finds the same stored context and runs
\* `if (callSid) transcripts[callSid] = []`.  Only this effect on the shared
\* store is modelled; the further session's own variables are not.
MediaStreamOpen ==
  /\ impl = "index"
  /\ context.callSid # ""
  /\ transcripts' = [transcripts EXCEPT ![context.callSid] = <<>>]
  /\ UNCHANGED <<impl, budget, context, twState, streamSid,
                 conversationActive, elevenLabsReady, audioBuffer,
                 elevenLabsWs, wsState, reconnectAttempts, closed,
                 firstConnection, fetching, timers, idleTimer, requeue,
                 metrics, startSid, mediaIn, aiIn, aiSent, twSent, pings,
                 metaSeen, turns, callContextMap, placed, http, dropped, proc,
                 now>>

NextStreams ==
  \/ Next
  \/ MediaStreamOpen

SpecStreams == InitIndex /\ [][NextStreams]_vars

\* GET /transcripts/:callSid: { callSid, transcript: transcripts[callSid] || [] }
GetTranscripts(callSid) ==
  [callSid |-> callSid,
   transcript |-> IF callSid \in DOMAIN transcripts
                    THEN transcripts[callSid] ELSE <<>>]

\* ------------------------------------- src/unnamed/part_002: the session

\* State right after the /media-stream handler has started: it awaits the
\* signed URL (axios.post) and has attached no listener yet.
InitBuf ==
  /\ impl = "buffered"
  /\ budget = [conns |-> 1, media |-> MaxMedia, ai |-> MaxAiMsgs,
               types |-> RelayTypes, bad |-> 0]
  /\ context = NoContext
  /\ twState = "open"
  /\ streamSid = Null
  /\ conversationActive = FALSE
  /\ elevenLabsReady = FALSE
  /\ audioBuffer = <<>>
  /\ elevenLabsWs = 0
  /\ wsState = [w \in WsIds |-> "none"]
  /\ reconnectAttempts = 0
  /\ closed = FALSE
  /\ firstConnection = TRUE
  /\ fetching = 1
  /\ timers = <<>>
  /\ idleTimer = "cleared"
  /\ requeue = {}
  /\ metrics = [calls |-> 0, errors |-> 0, activeCalls |-> 0, reconnects |-> 0]
  /\ startSid = Null
  /\ mediaIn = <<>>
  /\ aiIn = 0
  /\ aiSent = <<>>
  /\ twSent = <<>>
  /\ pings = {}
  /\ metaSeen = {}
  /\ turns = <<>>
  /\ transcripts = [c \in {} |-> <<>>]
  /\ callContextMap = [r \in {} |-> NoContext]
  /\ placed = <<>>
  /\ http = <<>>
  /\ dropped = <<>>
  /\ proc = Running
  /\ now = 0

\* The listeners of both sockets are attached only once the signed URL has
\* arrived and the AI socket exists.
Listening == elevenLabsWs # 0

\* axios.post resolved: new WebSocket(signedUrl), then every listener is
\* attached.
BufFetchOk ==
  /\ impl = "buffered"
  /\ fetching > 0
  /\ elevenLabsWs < budget.conns
  /\ fetching' = fetching - 1
  /\ elevenLabsWs' = elevenLabsWs + 1
  /\ wsState' = [wsState EXCEPT ![elevenLabsWs + 1] = "connecting"]
  /\ UNCHANGED <<impl, budget, context, twState, streamSid,
                 conversationActive, elevenLabsReady, audioBuffer,
                 reconnectAttempts, closed, firstConnection, timers,
                 idleTimer, requeue, metrics, startSid, mediaIn, aiIn, aiSent,
                 twSent, pings, metaSeen, turns, transcripts, callContextMap,
                 placed, http, dropped, proc, now>>

\* axios.post threw: connection.socket.close() and return.
BufFetchFail ==
  /\ impl = "buffered"
  /\ fetching > 0
  /\ fetching' = fetching - 1
  /\ twState' = ConnectionClose
  /\ UNCHANGED <<impl, budget, context, streamSid, conversationActive,
                 elevenLabsReady, audioBuffer, elevenLabsWs, wsState,
                 reconnectAttempts, closed, firstConnection, timers,
                 idleTimer, requeue, metrics, startSid, mediaIn, aiIn, aiSent,
                 twSent, pings, metaSeen, turns, transcripts, callContextMap,
                 placed, http, dropped, proc, now>>

\* elevenLabsWs.on("open"): logs.
BufAiOpen ==
  /\ impl = "buffered"
  /\ wsState[1] = "connecting"
  /\ wsState' = [wsState EXCEPT ![1] = "open"]
  /\ UNCHANGED <<impl, budget, context, twState, streamSid,
                 conversationActive, elevenLabsReady, audioBuffer,
                 elevenLabsWs, reconnectAttempts, closed, firstConnection,
                 fetching, timers, idleTimer, requeue, metrics, startSid,
                 mediaIn, aiIn, aiSent, twSent, pings, metaSeen, turns,
                 transcripts, callContextMap, placed, http, dropped, proc, now>>

\* Mutant of Flush: the buffer is sent newest chunk first.
RECURSIVE FlushNewestFirst(_, _, _)
FlushNewestFirst(log, buf, w) ==
  IF buf = <<>> THEN log
  ELSE FlushNewestFirst(WsSend(log, w, "user_audio_chunk", buf[Len(buf)],
                               "flush"),
                        SubSeq(buf, 1, Len(buf) - 1), w)

\* for (const chunk of audioBuffer) elevenLabsWs.send(JSON.stringify(chunk))
RECURSIVE Flush(_, _, _)
Flush(log, buf, w) ==
  IF buf = <<>> THEN log
  ELSE Flush(WsSend(log, w, "user_audio_chunk", Head(buf), "flush"),
             Tail(buf), w)

\* elevenLabsWs.on("message"): a frame that parses runs through the four ifs.
BufAiMessage ==
  /\ impl = "buffered"
  /\ aiIn < budget.ai
  /\ wsState[1] \in {"open", "closing"}
  /\ \E t \in budget.types :
       LET m == [type |-> t, n |-> aiIn + 1, ws |-> 1,
                 live |-> (wsState[1] = "open"), text |-> ""]
       IN /\ IF t = "conversation_initiation_metadata"
               THEN /\ elevenLabsReady' = TRUE
                    /\ aiSent' = Flush(aiSent, audioBuffer, elevenLabsWs)
                    /\ audioBuffer' = <<>>
               ELSE /\ aiSent' = IF t = "ping"
                                   THEN WsSend(aiSent, elevenLabsWs, "pong",
                                               m.n, "ping")
                                   ELSE aiSent
                    /\ UNCHANGED <<elevenLabsReady, audioBuffer>>
          /\ twSent' = CASE t = "audio" ->
                              TwSend(twSent, "media", streamSid, m.n)
                         [] t = "interruption" ->
                              TwSend(twSent, "clear", streamSid, 0)
                         [] OTHER -> twSent
          /\ pings' = IF t = "ping" THEN pings \cup {m} ELSE pings
          /\ metaSeen' = IF t = "conversation_initiation_metadata"
                           THEN metaSeen \cup {1} ELSE metaSeen
  /\ aiIn' = aiIn + 1
  /\ UNCHANGED <<impl, budget, context, twState, streamSid,
                 conversationActive, elevenLabsWs, wsState, reconnectAttempts,
                 closed, firstConnection, fetching, timers, idleTimer,
                 requeue, metrics, startSid, mediaIn, turns, transcripts,
                 callContextMap, placed, http, dropped, proc, now>>

\* elevenLabsWs.on("error"): logs; ws emits "close" after it.
BufAiError ==
  /\ impl = "buffered"
  /\ wsState[1] \in {"connecting", "open"}
  /\ wsState' = [wsState EXCEPT ![1] = "closing"]
  /\ UNCHANGED <<impl, budget, context, twState, streamSid,
                 conversationActive, elevenLabsReady, audioBuffer,
                 elevenLabsWs, reconnectAttempts, closed, firstConnection,
                 fetching, timers, idleTimer, requeue, metrics, startSid,
                 mediaIn, aiIn, aiSent, twSent, pings, metaSeen, turns,
                 transcripts, callContextMap, placed, http, dropped, proc, now>>

\* elevenLabsWs.on("close"): logs.
BufAiClose ==
  /\ impl = "buffered"
  /\ wsState[1] \in {"open", "closing"}
  /\ wsState' = [wsState EXCEPT ![1] = "closed"]
  /\ UNCHANGED <<impl, budget, context, twState, streamSid,
                 conversationActive, elevenLabsReady, audioBuffer,
                 elevenLabsWs, reconnectAttempts, closed, firstConnection,
                 fetching, timers, idleTimer, requeue, metrics, startSid,
                 mediaIn, aiIn, aiSent, twSent, pings, metaSeen, turns,
                 transcripts, callContextMap, placed, http, dropped, proc, now>>

\* connection.socket.on("message"), msg.event === "start".  Before the
\* listener is attached the frame is lost.
BufTwStart ==
  /\ impl = "buffered"
  /\ twState \in {"open", "closing"}
  /\ \E sid \in StreamIds :
       /\ startSid' = sid
       /\ streamSid' = IF Listening THEN sid ELSE streamSid
  /\ UNCHANGED <<impl, budget, context, twState, conversationActive,
                 elevenLabsReady, audioBuffer, elevenLabsWs, wsState,
                 reconnectAttempts, closed, firstConnection, fetching, timers,
                 idleTimer, requeue, metrics, mediaIn, aiIn, aiSent, twSent,
                 pings, metaSeen, turns, transcripts, callContextMap, placed,
                 http, dropped, proc, now>>

\* connection.socket.on("message"), msg.event === "media"
BufTwMedia ==
  /\ impl = "buffered"
  /\ twState \in {"open", "closing"}
  /\ Len(mediaIn) < budget.media
  /\ \E pad \in BOOLEAN :
       LET payload == [n |-> Len(mediaIn) + 1, padded |-> pad]
           userChunk == B64RoundTrip(payload)
       IN /\ mediaIn' = Append(mediaIn, payload)
          /\ IF ~Listening
               THEN UNCHANGED <<aiSent, audioBuffer>>
               ELSE IF elevenLabsReady /\ IsOpen(elevenLabsWs)
                 THEN /\ aiSent' = WsSend(aiSent, elevenLabsWs,
                                          "user_audio_chunk", userChunk, "media")
                      /\ UNCHANGED audioBuffer
                 ELSE /\ audioBuffer' = Append(audioBuffer, userChunk)
                      /\ UNCHANGED aiSent
  /\ UNCHANGED <<impl, budget, context, twState, streamSid,
                 conversationActive, elevenLabsReady, elevenLabsWs, wsState,
                 reconnectAttempts, closed, firstConnection, fetching, timers,
                 idleTimer, requeue, metrics, startSid, aiIn, twSent, pings,
                 metaSeen, turns, transcripts, callContextMap, placed, http,
                 dropped, proc, now>>

\* connection.socket.on("message"), msg.event === "stop", and
\* connection.socket.on("close"): close the AI socket if it is OPEN.
BufTwStop ==
  /\ impl = "buffered"
  /\ twState \in {"open", "closing"}
  /\ wsState' = IF Listening /\ IsOpen(elevenLabsWs)
                  THEN WsClose(elevenLabsWs) ELSE wsState
  /\ UNCHANGED <<impl, budget, context, twState, streamSid,
                 conversationActive, elevenLabsReady, audioBuffer,
                 elevenLabsWs, reconnectAttempts, closed, firstConnection,
                 fetching, timers, idleTimer, requeue, metrics, startSid,
                 mediaIn, aiIn, aiSent, twSent, pings, metaSeen, turns,
                 transcripts, callContextMap, placed, http, dropped, proc, now>>

BufTwClose ==
  /\ impl = "buffered"
  /\ twState \in {"open", "closing"}
  /\ twState' = "closed"
  /\ wsState' = IF Listening /\ IsOpen(elevenLabsWs)
                  THEN WsClose(elevenLabsWs) ELSE wsState
  /\ UNCHANGED <<impl, budget, context, streamSid, conversationActive,
                 elevenLabsReady, audioBuffer, elevenLabsWs,
                 reconnectAttempts, closed, firstConnection, fetching, timers,
                 idleTimer, requeue, metrics, startSid, mediaIn, aiIn, aiSent,
                 twSent, pings, metaSeen, turns, transcripts, callContextMap,
                 placed, http, dropped, proc, now>>

NextBuf ==
  \/ BufFetchOk
  \/ BufFetchFail
  \/ BufAiOpen
  \/ BufAiMessage
  \/ BufAiError
  \/ BufAiClose
  \/ BufTwStart
  \/ BufTwMedia
  \/ BufTwStop
  \/ BufTwClose

SpecBuf == InitBuf /\ [][NextBuf]_vars

\* Either implementation.
InitAll == InitIndex \/ InitBuf
NextAll == Next \/ NextBuf
SpecAll == InitAll /\ [][NextAll]_vars

\* ------------------------------------------ src/index.js: the control plane

\* The variables of a media-stream session: no control-plane handler touches
\* them.
session == <<impl, budget, context, twState, streamSid, conversationActive,
             elevenLabsReady, audioBuffer, elevenLabsWs, wsState,
             reconnectAttempts, closed, firstConnection, fetching, timers,
             idleTimer, requeue, startSid, mediaIn, aiIn, aiSent, twSent,
             pings, metaSeen, turns, transcripts, dropped>>

\* Values of `to`, written as the sequence of their characters.
Digits == {"0", "1", "2", "3", "4", "5", "6", "7", "8", "9"}
SixteenDigits == [i \in 1..16 |-> "1"]
ToValues ==
  { <<>>, <<"+", "1", "2">>, <<"1", "2">>, <<"1">>, <<"+">>,
    <<"0", "1", "2">>, <<"1", "a">>, <<"1", "2", "+">>, SixteenDigits }

\* request.body of POST /twilio/outbound_call: no object at all (no body, or
\* the JSON value null), an object without `to`, or an object with `to`.
\* script, persona and context come with a `to` that passes the validation.
NoData == [script |-> "", persona |-> "", context |-> ""]
PromptData ==
  { NoData,
    [script |-> "hello", persona |-> "", context |-> ""],
    [script |-> "", persona |-> "p", context |-> "c"] }
Bodies ==
  { [has |-> "nobody", to |-> <<>>, data |-> NoData],
    [has |-> "noto", to |-> <<>>, data |-> NoData] }
    \cup { [has |-> "to", to |-> t, data |-> NoData] : t \in ToValues }
    \cup { [has |-> "to", to |-> <<"+", "1", "2">>, data |-> d] :
             d \in PromptData }

\* /^\+?[1-9]\d{1,14}$/.test(to)
phoneRegexTest(to) ==
  LET rest == IF to # <<>> /\ Head(to) = "+" THEN Tail(to) ELSE to
  IN /\ Len(rest) >= 2
     /\ Len(rest) <= 15
     /\ rest[1] \in Digits \ {"0"}
     /\ \A i \in 2..Len(rest) : rest[i] \in Digits

\* The call_status values the provider reports, and the five the handler
\* treats as terminal.
TerminalStatuses == {"completed", "failed", "busy", "no-answer", "canceled"}
CallStatuses == TerminalStatuses \cup {"ringing"}

\* call.sid of the k-th call the provider creates
CallSidOf(k) == IF k = 1 THEN "CA1" ELSE "CA2"

PendingCalls == {i \in 1..Len(placed) : placed[i].state = "pending"}
CreatedCalls == {i \in 1..Len(placed) : placed[i].state = "created"}

\* Requests received so far: answered or waiting for the provider.
Requests == Len(http) + Cardinality(PendingCalls)

\* Outbound-call requests received so far: each has minted a request id.
Minted ==
  Cardinality({i \in 1..Len(http) : http[i].route = "outbound_call"})
    + Cardinality(PendingCalls)

\* One answer of the control plane.
Answer(route, reqId, body, callSid, callStatus, provider, status) ==
  [route |-> route, reqId |-> reqId, has |-> body.has, to |-> body.to,
   data |-> body.data, callSid |-> callSid, callStatus |-> callStatus, provider |-> provider,
   status |-> status]

\* The process has started: counters at zero, stores empty, no session.
InitCtl ==
  /\ impl = "control"
  /\ budget = [conns |-> 0, media |-> 0, ai |-> 0, types |-> {}, bad |-> 0]
  /\ context = NoContext
  /\ twState = "closed"
  /\ streamSid = Null
  /\ conversationActive = FALSE
  /\ elevenLabsReady = FALSE
  /\ audioBuffer = <<>>
  /\ elevenLabsWs = 0
  /\ wsState = [w \in WsIds |-> "none"]
  /\ reconnectAttempts = 0
  /\ closed = FALSE
  /\ firstConnection = TRUE
  /\ fetching = 0
  /\ timers = <<>>
  /\ idleTimer = "cleared"
  /\ requeue = {}
  /\ metrics = [calls |-> 0, errors |-> 0, activeCalls |-> 0, reconnects |-> 0]
  /\ startSid = Null
  /\ mediaIn = <<>>
  /\ aiIn = 0
  /\ aiSent = <<>>
  /\ twSent = <<>>
  /\ pings = {}
  /\ metaSeen = {}
  /\ turns = <<>>
  /\ transcripts = [c \in {} |-> <<>>]
  /\ callContextMap = [r \in {} |-> NoContext]
  /\ placed = <<>>
  /\ http = <<>>
  /\ dropped = <<>>
  /\ proc = Running
  /\ now = 0

\* POST /twilio/outbound_call up to the await: genId(), the destructuring of
\* request.body (a TypeError without an object, caught by the catch block),
\* the validation of `to`, then twilioClient.calls.create is called.
OutboundCall ==
  /\ impl = "control"
  /\ Requests < MaxRequests
  /\ \E body \in Bodies :
       LET reqId == Minted + 1
       IN IF body.has = "nobody"
            THEN /\ metrics' = [metrics EXCEPT !.errors = @ + 1]
                 /\ http' = Append(http, Answer("outbound_call", reqId, body,
                                                "", "", "none", 500))
                 /\ UNCHANGED placed
            ELSE IF body.has = "noto" \/ body.to = <<>>
                      \/ ~phoneRegexTest(body.to)
              THEN /\ http' = Append(http, Answer("outbound_call", reqId, body,
                                                  "", "", "none", 400))
                   /\ UNCHANGED <<metrics, placed>>
              ELSE /\ placed' = Append(placed,
                                       [reqId |-> reqId, body |-> body,
                                        state |-> "pending", sid |-> ""])
                   /\ UNCHANGED <<metrics, http>>
  /\ UNCHANGED callContextMap
  /\ UNCHANGED <<session, proc, now>>

\* callContextMap[reqId] = { script, persona, context, callSid, ...,
\*                           timestamp: Date.now() }
StoredContext(data, callSid) ==
  [script |-> data.script, persona |-> data.persona,
   context |-> data.context, callSid |-> callSid, timestamp |-> now]

\* Mutant of ProviderCreated: the entry is stored without the script, persona
\* and context of the request.
ProviderCreatedDefaults ==
  /\ impl = "control"
  /\ Cardinality(CreatedCalls) < Cardinality(CallSids)
  /\ \E i \in PendingCalls :
       LET callSid == CallSidOf(Cardinality(CreatedCalls) + 1)
           reqId == placed[i].reqId
       IN /\ placed' = [placed EXCEPT ![i].state = "created", ![i].sid = callSid]
          /\ callContextMap' =
               [r \in DOMAIN callContextMap \cup {reqId} |->
                  IF r = reqId
                    THEN StoredContext(NoData, callSid)
                    ELSE callContextMap[r]]
          /\ metrics' = [metrics EXCEPT !.calls = @ + 1, !.activeCalls = @ + 1]
          /\ http' = Append(http, Answer("outbound_call", reqId, placed[i].body,
                                         callSid, "", "created", 200))
  /\ UNCHANGED <<session, proc, now>>

\* twilioClient.calls.create resolved: the context is stored under the request
\* id, calls and activeCalls are incremented, the request is answered.
ProviderCreated ==
  /\ impl = "control"
  /\ Cardinality(CreatedCalls) < Cardinality(CallSids)
  /\ \E i \in PendingCalls :
       LET callSid == CallSidOf(Cardinality(CreatedCalls) + 1)
           reqId == placed[i].reqId
       IN /\ placed' = [placed EXCEPT ![i].state = "created", ![i].sid = callSid]
          /\ callContextMap' =
               [r \in DOMAIN callContextMap \cup {reqId} |->
                  IF r = reqId
                    THEN StoredContext(placed[i].body.data, callSid)
                    ELSE callContextMap[r]]
          /\ metrics' = [metrics EXCEPT !.calls = @ + 1, !.activeCalls = @ + 1]
          /\ http' = Append(http, Answer("outbound_call", reqId, placed[i].body,
                                         callSid, "", "created", 200))
  /\ UNCHANGED <<session, proc, now>>

\* Mutant of ProviderFailed: the context was stored before the provider was
\* asked, and stays.
ProviderFailedStored ==
  /\ impl = "control"
  /\ \E i \in PendingCalls :
       LET reqId == placed[i].reqId
       IN /\ placed' = [placed EXCEPT ![i].state = "failed"]
          /\ callContextMap' =
               [r \in DOMAIN callContextMap \cup {reqId} |->
                  IF r = reqId
                    THEN StoredContext(placed[i].body.data, "")
                    ELSE callContextMap[r]]
          /\ metrics' = [metrics EXCEPT !.errors = @ + 1]
          /\ http' = Append(http, Answer("outbound_call", reqId, placed[i].body,
                                         "", "", "failed", 500))
  /\ UNCHANGED <<session, proc, now>>

\* twilioClient.calls.create rejected: the catch block.
ProviderFailed ==
  /\ impl = "control"
  /\ \E i \in PendingCalls :
       /\ placed' = [placed EXCEPT ![i].state = "failed"]
       /\ metrics' = [metrics EXCEPT !.errors = @ + 1]
       /\ http' = Append(http, Answer("outbound_call", placed[i].reqId,
                                      placed[i].body, "", "", "failed", 500))
  /\ UNCHANGED callContextMap
  /\ UNCHANGED <<session, proc, now>>

\* Mutant of Decrement: no floor.
DecrementUnfloored(n) == n - 1

\* Math.max(0, metrics.activeCalls - 1)
Decrement(n) == IF n - 1 > 0 THEN n - 1 ELSE 0

\* Mutant of CallStatus: the registry is not cleaned up.
CallStatusNoCleanup ==
  /\ impl = "control"
  /\ Requests < MaxRequests
  /\ \E CallSid \in CallSids, status \in CallStatuses :
       /\ IF status \in TerminalStatuses
            THEN /\ metrics' = [metrics EXCEPT
                                  !.activeCalls = Decrement(@)]
                 /\ UNCHANGED callContextMap
            ELSE UNCHANGED <<metrics, callContextMap>>
       /\ http' = Append(http, Answer("call_status", 0,
                                      [has |-> "to", to |-> <<>>,
                                       data |-> NoData],
                                      CallSid, status, "none", 200))
  /\ UNCHANGED placed
  /\ UNCHANGED <<session, proc, now>>

\* POST /twilio/call_status
CallStatus ==
  /\ impl = "control"
  /\ Requests < MaxRequests
  /\ \E CallSid \in CallSids, status \in CallStatuses :
       /\ IF status \in TerminalStatuses
            THEN /\ metrics' = [metrics EXCEPT
                                  !.activeCalls = Decrement(@)]
                 /\ callContextMap' =
                      [r \in {q \in DOMAIN callContextMap :
                                callContextMap[q].callSid # CallSid} |->
                         callContextMap[r]]
            ELSE UNCHANGED <<metrics, callContextMap>>
       /\ http' = Append(http, Answer("call_status", 0,
                                      [has |-> "to", to |-> <<>>,
                                       data |-> NoData],
                                      CallSid, status, "none", 200))
  /\ UNCHANGED placed
  /\ UNCHANGED <<session, proc, now>>

\* const context = callContextMap[reqId] || {} and the destructuring of
\* script, persona, context and callSid from it.
Lookup(reqId) ==
  IF reqId \in DOMAIN callContextMap
    THEN [script |-> callContextMap[reqId].script,
          persona |-> callContextMap[reqId].persona,
          context |-> callContextMap[reqId].context,
          callSid |-> callContextMap[reqId].callSid]
    ELSE NoContext

\* A /media-stream WebSocket is opened with ?reqId=: the handler looks its
\* context up, initialises the transcript of the call, calls
\* connectElevenLabs() and arms the idle timer.  The further steps of the
\* session are those of Spec.
MediaStream ==
  /\ impl = "control"
  /\ Requests < MaxRequests
  /\ twState = "closed"
  /\ \A i \in 1..Len(http) : http[i].route # "media-stream"
  /\ \E reqId \in ReqIds :
       /\ context' = Lookup(reqId)
       /\ transcripts' =
            [c \in DOMAIN transcripts \cup ({Lookup(reqId).callSid} \cap CallSids)
               |-> IF c = Lookup(reqId).callSid THEN <<>> ELSE transcripts[c]]
       /\ http' = Append(http, Answer("media-stream", reqId,
                                      [has |-> "to", to |-> <<>>,
                                       data |-> NoData],
                                      "", "", "none", 101))
  /\ twState' = "open"
  /\ fetching' = 1
  /\ idleTimer' = "pending"
  /\ UNCHANGED <<impl, budget, streamSid, conversationActive, elevenLabsReady,
                 audioBuffer, elevenLabsWs, wsState, reconnectAttempts,
                 closed, firstConnection, timers, requeue, metrics, startSid,
                 mediaIn, aiIn, aiSent, twSent, pings, metaSeen, turns,
                 callContextMap, placed, dropped, proc, now>>

NextCtl ==
  \/ OutboundCall
  \/ ProviderCreated
  \/ ProviderFailed
  \/ CallStatus
  \/ MediaStream

SpecCtl == InitCtl /\ [][NextCtl]_vars

\* --------------------------------- src/index.js: the sweep of the registry

\* 60 * 60 * 1000, the period of the sweep, and 24 * 60 * 60 * 1000
Hour == 60 * 60 * 1000
MaxAge == 24 * Hour

\* Time passes: an hour, or half a day at once.
Tick ==
  /\ impl = "control"
  /\ \E d \in {Hour, 12 * Hour} :
       /\ now + d <= MaxClock * Hour
       /\ now' = now + d
  /\ UNCHANGED <<session, metrics, callContextMap, placed, http, proc>>

\* Mutant of Expired: an entry of exactly the cutoff goes as well.
ExpiredAtCutoff(entry, cutoff) == entry.timestamp <= cutoff

\* callContextMap[reqId]?.timestamp < cutoff
Expired(entry, cutoff) == entry.timestamp < cutoff

\* The setInterval callback: cutoff = Date.now() - 24 h, every entry stored
\* before the cutoff is deleted.
Sweep ==
  /\ impl = "control"
  /\ LET cutoff == now - MaxAge
     IN callContextMap' =
          [r \in {q \in DOMAIN callContextMap :
                    ~Expired(callContextMap[q], cutoff)} |->
             callContextMap[r]]
  /\ UNCHANGED <<session, metrics, placed, http, proc, now>>

\* An outbound_call request that passes the validation, while fewer than
\* MaxSweepCalls have been received.
PlaceCall ==
  /\ Minted < MaxSweepCalls
  /\ OutboundCall
  /\ placed' # placed

\* Calls are placed and created while time passes and the sweep runs.
NextSweep ==
  \/ PlaceCall
  \/ ProviderCreated
  \/ Tick
  \/ Sweep

SpecSweep == InitCtl /\ [][NextSweep]_vars

\* Scenario S5 of the specification: every signed-URL request succeeds and
\* every AI socket closes right after it opened, while the telephony peer goes
\* on sending and the session is not closed.
NextS5 ==
  \/ FetchOk
  \/ ReconnectTimer
  \/ AiOpen
  \/ AiClose
  \/ TwStart
  \/ TwMedia

SpecS5 == InitIndex /\ [][NextS5]_vars

\* --------------------------------------------- src/index.js: the shutdown

\* process.exit has not been called.
Alive == proc.state # "exited"

\* Mutant of Signal: gracefulShutdown arms no force-exit timer.
SignalNoTimer ==
  /\ Alive
  /\ proc.timers < MaxSignals
  /\ proc' = [proc EXCEPT !.state = "closing"]
  /\ UNCHANGED <<session, metrics, callContextMap, placed, http, now>>

\* SIGTERM or SIGINT: gracefulShutdown calls fastify.close(callback) and arms
\* the 10 s timer.
Signal ==
  /\ Alive
  /\ proc.timers < MaxSignals
  /\ proc' = [proc EXCEPT !.state = "closing", !.timers = @ + 1]
  /\ UNCHANGED <<session, metrics, callContextMap, placed, http, now>>

\* The callback of fastify.close runs: process.exit(0).
ServerClosed ==
  /\ proc.state = "closing"
  /\ proc' = [proc EXCEPT !.state = "exited", !.code = 0,
                          !.serverClosed = TRUE]
  /\ UNCHANGED <<session, metrics, callContextMap, placed, http, now>>

\* A 10 s timer of gracefulShutdown fires: process.exit(1).
ShutdownTimer ==
  /\ Alive
  /\ proc.timers > 0
  /\ proc' = [proc EXCEPT !.state = "exited", !.code = 1,
                          !.timerFired = TRUE]
  /\ UNCHANGED <<session, metrics, callContextMap, placed, http, now>>

\* A step of the session in flight, as long as the process lives.
SessionStep == Alive /\ NextS5

NextShutdown ==
  \/ SessionStep
  \/ Signal
  \/ ServerClosed
  \/ ShutdownTimer

\* An armed timer fires unless the process has exited before.
SpecShutdown ==
  InitIndex /\ [][NextShutdown]_vars /\ WF_vars(ShutdownTimer)

\* ---------------------------------------- src/index.js: a session to its end

\* A session under the profile with frames that do not parse: one AI socket,
\* one media event, one AI message.
InitQuiesce ==
  /\ InitIndex
  /\ budget.bad = MaxBad

\* What the runtime and the network bring about without the peers' doing: a
\* timer that is armed fires, a signed-URL request is answered, a socket
\* that is connecting opens or fails, a socket that is closing closes.
SpecQuiesce ==
  /\ InitQuiesce
  /\ [][Next]_vars
  /\ WF_vars(RequeueTimer)
  /\ WF_vars(ReconnectTimer)
  /\ WF_vars(IdleTimeout)
  /\ WF_vars(FetchOk \/ FetchFail)
  /\ WF_vars(AiOpen \/ AiError)
  /\ WF_vars(AiClose)

\* ================================================================== claims

\* The user_audio_chunk frames among the elevenLabsWs.send calls, as indices.
Chunks == {i \in 1..Len(aiSent) : aiSent[i].kind = "user_audio_chunk"}

\* The caller payload with arrival number k reached the AI peer.
Delivered(k) ==
  \E i \in Chunks : aiSent[i].val.n = k /\ aiSent[i].ok

\* The caller payload with arrival number k waits in the audio buffer.
Pending(k) ==
  \E i \in 1..Len(audioBuffer) : audioBuffer[i].n = k

\* C1: every media payload the telephony socket has delivered either waits in
\* the pending-audio buffer or has been sent to the AI peer as a
\* user_audio_chunk: none is dropped.  (index.js keeps no buffer: audioBuffer
\* stays empty there.)
C1_NoCallerAudioDropped ==
  \A k \in 1..Len(mediaIn) : Delivered(k) \/ Pending(k)

\* C2: the user_audio_chunk frames are sent to the AI peer in the order their
\* media payloads arrived on the telephony socket, across the flush too.
C2_CallerAudioInOrder ==
  \A i, j \in Chunks : i < j => aiSent[i].val.n < aiSent[j].val.n

\* C2 witness: part_002 has delivered two chunks, the first from the flush of
\* the buffer and the second live.
C2_Witness ==
  /\ impl = "buffered"
  /\ \E i, j \in Chunks :
       /\ i < j
       /\ aiSent[i].ok /\ aiSent[i].via = "flush"
       /\ aiSent[j].ok /\ aiSent[j].via = "media"

\* C3: a media or clear frame is sent to the telephony peer only after a
\* start event, and carries the stream id of the latest start event.
C3_FramesCarryStartStreamSid ==
  [][\A i \in (Len(twSent) + 1)..Len(twSent') :
        /\ startSid \in StreamIds
        /\ twSent'[i].streamSid = startSid]_vars

\* C3 witness: a media frame and a clear frame were sent to the open telephony
\* socket under two different stream ids.
C3_Witness ==
  \E i, j \in 1..Len(twSent) :
    /\ twSent[i].event = "media" /\ twSent[i].ok
    /\ twSent[j].event = "clear" /\ twSent[j].ok
    /\ twSent[i].streamSid # twSent[j].streamSid

\* AI sockets of the session that have closed.
ClosedSockets == {w \in WsIds : wsState[w] = "closed"}

\* AI sockets of the session that are connecting or open.
LiveSockets == {w \in WsIds : wsState[w] \in {"connecting", "open"}}

\* C4: with MAX_ELEVENLABS_RETRIES = N, when the AI socket closes right after
\* every open, the session connects at most N + 1 times and has closed the
\* telephony socket once N + 1 sockets have failed.
C4_ReconnectsExhaust ==
  /\ elevenLabsWs <= MAX_ELEVENLABS_RETRIES + 1
  /\ Cardinality(ClosedSockets) >= MAX_ELEVENLABS_RETRIES + 1 => twState # "open"

\* C5: once closed is true, no signed-URL request is started and no AI socket
\* is created.
C5_NoConnectAfterClosed ==
  [][closed => (fetching' <= fetching /\ elevenLabsWs' = elevenLabsWs)]_vars

\* C6: the step in which a telephony stop or close sets closed leaves no AI
\* socket of the session connecting or open.
C6_StopClosesAiSocket ==
  [][(/\ ~closed /\ closed'
      /\ ~(idleTimer = "pending" /\ idleTimer' = "fired")
      /\ (twState' = twState \/ twState' = "closed"))
       => LiveSockets' = {}]_vars

\* C7: the step in which the idle timer fires closes both peers: the telephony
\* socket is no longer open and no AI socket is connecting or open.
C7_IdleTimerClosesBothPeers ==
  [][(idleTimer = "pending" /\ idleTimer' = "fired")
       => (twState' # "open" /\ LiveSockets' = {})]_vars

\* C8: once the idle timer has fired, closed is true and the session starts no
\* reconnect: no backoff timer is armed and no signed-URL request begins.
C8_IdleTimeoutIsTerminal ==
  [][idleTimer' = "fired"
       => (closed' /\ (idleTimer = "fired" =>
                         (Len(timers') <= Len(timers) /\ fetching' <= fetching)))]_vars

\* The pongs carrying event id n that reached the AI socket w.
Pongs(n, w) ==
  {i \in 1..Len(aiSent) :
     /\ aiSent[i].kind = "pong" /\ aiSent[i].ok
     /\ aiSent[i].val = n /\ aiSent[i].ws = w}

\* C9: a ping delivered by an open AI socket is answered by exactly one pong
\* with its event id on that socket as soon as it has been handled (it may
\* still wait in the re-queue), and no pong goes to another socket.
C9_OnePongOnSameSocket ==
  /\ \A p \in pings :
       (p.live /\ p \notin requeue) => Cardinality(Pongs(p.n, p.ws)) = 1
  /\ \A p \in pings, w \in WsIds : w # p.ws => Pongs(p.n, w) = {}

\* C10: a user_audio_chunk goes out live only on an AI socket that has
\* delivered conversation_initiation_metadata.
C10_NoLiveAudioBeforeMetadata ==
  [][\A i \in (Len(aiSent) + 1)..Len(aiSent') :
        (aiSent'[i].kind = "user_audio_chunk" /\ aiSent'[i].ok)
          => aiSent'[i].ws \in metaSeen']_vars

\* The media frames among the connection.send calls that reached the
\* telephony peer, as indices.
AudioFrames ==
  {i \in 1..Len(twSent) : twSent[i].event = "media" /\ twSent[i].ok}

\* C11: the media frames sent to the telephony peer carry the AI audio
\* payloads in the order the audio messages arrived on the AI socket, also
\* when some arrived before the start event and others after it.
C11_AiAudioInOrder ==
  \A i, j \in AudioFrames : i < j => twSent[i].val < twSent[j].val

\* The scenario of C12: every signed-URL request fails, the telephony peer
\* goes on sending and the session is not closed.
NextFetchFails ==
  \/ FetchFail
  \/ ReconnectTimer
  \/ TwStart
  \/ TwMedia

SpecFetchFails == InitIndex /\ [][NextFetchFails]_vars

\* C12: when every signed-URL request fails, each failure below the limit
\* counts one reconnect attempt and arms one retry with the backoff of that
\* attempt; the failure at reconnectAttempts = MAX_ELEVENLABS_RETRIES closes
\* the telephony socket and arms nothing; after that no request is started.
C12_FetchFailuresExhaust ==
  /\ [](/\ reconnectAttempts <= MAX_ELEVENLABS_RETRIES
        /\ fetching + Len(timers) <= 1
        /\ twState # "open" =>
              /\ reconnectAttempts = MAX_ELEVENLABS_RETRIES
              /\ fetching = 0 /\ timers = <<>>)
  /\ [][fetching' < fetching =>
          IF reconnectAttempts < MAX_ELEVENLABS_RETRIES
            THEN /\ reconnectAttempts' = reconnectAttempts + 1
                 /\ timers' = Append(timers, Backoff(reconnectAttempts'))
                 /\ twState' = twState
            ELSE /\ twState' # "open"
                 /\ timers' = timers
                 /\ reconnectAttempts' = reconnectAttempts]_vars
  /\ [][twState # "open" => fetching' <= fetching]_vars

\* C12 witness: the initial request and MAX_ELEVENLABS_RETRIES retries have
\* failed and the telephony socket is closing.
C12_Witness ==
  /\ ~closed
  /\ elevenLabsWs = 0
  /\ reconnectAttempts = MAX_ELEVENLABS_RETRIES
  /\ fetching = 0 /\ timers = <<>>
  /\ twState = "closing"

\* C13: every step in which an AI socket opens increments the reconnects
\* metric by exactly one.
C13_EachOpenCountsOneReconnect ==
  [][(\E w \in WsIds : wsState[w] = "connecting" /\ wsState'[w] = "open")
       => metrics'.reconnects = metrics.reconnects + 1]_vars

\* The roles and texts of a list of turns, in order.
RECURSIVE RolesAndTexts(_)
RolesAndTexts(list) ==
  IF list = <<>> THEN <<>>
  ELSE <<[role |-> Head(list).role, text |-> Head(list).text]>>
         \o RolesAndTexts(Tail(list))

\* The addTranscript calls of the session that carried a text.
HasText(turn) == turn.text # ""

\* C14: GET /transcripts/:callSid of the session's call returns the turns the
\* session appended (the addTranscript calls with a text), same roles and
\* texts, same order; for a call id without transcript it returns the empty
\* list.
C14_TranscriptRoundTrip ==
  \A c \in CallSids :
    RolesAndTexts(GetTranscripts(c).transcript) =
      IF c = context.callSid
        THEN RolesAndTexts(SelectSeq(turns, HasText))
        ELSE <<>>

\* C14 witness: the call's transcript reads back a user turn and an agent
\* turn, and another call id has no transcript.
C14_Witness ==
  /\ \E i, j \in 1..Len(GetTranscripts("CA1").transcript) :
       /\ i < j
       /\ GetTranscripts("CA1").transcript[i].role
            # GetTranscripts("CA1").transcript[j].role
  /\ GetTranscripts("CA2").transcript = <<>>

\* C15: a call's transcript is append-only: every step keeps every stored
\* turn at its position, also a step that opens a further media stream with
\* the same request id.
C15_TranscriptAppendOnly ==
  [][\A c \in DOMAIN transcripts :
        /\ c \in DOMAIN transcripts'
        /\ Len(transcripts'[c]) >= Len(transcripts[c])
        /\ SubSeq(transcripts'[c], 1, Len(transcripts[c])) = transcripts[c]]_vars

\* C16: the turns stored for a call are in the order their messages arrived
\* on the AI socket, also when some arrived before the start event and others
\* after it.
C16_TranscriptInArrivalOrder ==
  \A c \in DOMAIN transcripts :
    \A i, j \in 1..Len(transcripts[c]) :
      i < j => transcripts[c][i].n < transcripts[c][j].n

\* The answers a step adds to the log of the control plane, as indices.
NewAnswers == (Len(http) + 1)..Len(http')

\* The call_status callback with this CallSid and this terminal status has
\* been received before.
SeenBefore(callSid, status) ==
  \E i \in 1..Len(http) :
    /\ http[i].route = "call_status"
    /\ http[i].callSid = callSid
    /\ http[i].callStatus = status

\* C17: a terminal call_status received again for the same CallSid leaves
\* active_calls as it was: one call is decremented at most once.
C17_TerminalStatusIdempotent ==
  [][\A i \in NewAnswers :
        (/\ http'[i].route = "call_status"
         /\ http'[i].callStatus \in TerminalStatuses
         /\ SeenBefore(http'[i].callSid, http'[i].callStatus))
          => metrics'.activeCalls = metrics.activeCalls]_vars

\* C18: active_calls is never negative.
C18_ActiveCallsNonNegative ==
  metrics.activeCalls >= 0

\* C18 witness: terminal callbacks have been received although no call was
\* ever created, and one after a created call had already ended.
C18_Witness ==
  /\ metrics.activeCalls = 0
  /\ \E i, j, k \in 1..Len(http) :
       /\ i < j /\ j < k
       /\ http[i].route = "call_status"
       /\ http[i].callStatus \in TerminalStatuses
       /\ http[j].route = "outbound_call" /\ http[j].status = 200
       /\ http[k].route = "call_status"
       /\ http[k].callStatus \in TerminalStatuses
       /\ \E l \in 1..Len(http) :
            /\ l > k
            /\ http[l].route = "call_status"
            /\ http[l].callStatus \in TerminalStatuses

\* `to` is missing from the request or does not match the pattern.
InvalidTo(answer) ==
  \/ answer.has # "to"
  \/ answer.to = <<>>
  \/ ~phoneRegexTest(answer.to)

\* C19: an outbound_call request whose `to` is missing or does not match the
\* pattern is answered 400 and changes nothing else: no call is placed, no
\* context is stored, no counter moves.
C19_InvalidToIs400WithoutEffect ==
  [][\A i \in NewAnswers :
        (http'[i].route = "outbound_call" /\ InvalidTo(http'[i]))
          => /\ http'[i].status = 400
             /\ placed' = placed
             /\ callContextMap' = callContextMap
             /\ metrics' = metrics]_vars

\* C20: when the provider fails to create the call the request is answered
\* 500, errors is incremented by one, calls and activeCalls keep their values
\* and no context is stored under the minted request id.
C20_ProviderFailureIs500 ==
  [][\A i \in NewAnswers :
        (http'[i].route = "outbound_call" /\ http'[i].provider = "failed")
          => /\ http'[i].status = 500
             /\ metrics'.errors = metrics.errors + 1
             /\ metrics'.calls = metrics.calls
             /\ metrics'.activeCalls = metrics.activeCalls
             /\ http'[i].reqId \notin DOMAIN callContextMap']_vars

\* C20 witness: a call was created, and a later request failed at the
\* provider and was answered 500.
C20_Witness ==
  \E i, j \in 1..Len(http) :
    /\ i < j
    /\ http[i].provider = "created" /\ http[i].status = 200
    /\ http[j].provider = "failed" /\ http[j].status = 500
    /\ metrics.errors = 1 /\ metrics.calls = 1 /\ metrics.activeCalls = 1
    /\ DOMAIN callContextMap = {http[i].reqId}

\* The successful outbound_call answer for request id r in the log, as indices.
CreatedAnswer(r) ==
  {j \in 1..Len(http) :
     /\ http[j].route = "outbound_call" /\ http[j].status = 200
     /\ http[j].reqId = r}

\* A terminal call_status for this call id has been received.
Ended(callSid) ==
  \E k \in 1..Len(http) :
    /\ http[k].route = "call_status"
    /\ http[k].callSid = callSid
    /\ http[k].callStatus \in TerminalStatuses

C22_TerminalStatusCleansRegistry ==
  [][\A i \in NewAnswers :
        (/\ http'[i].route = "call_status"
         /\ http'[i].callStatus \in TerminalStatuses) =>
          /\ DOMAIN callContextMap' =
               {r \in DOMAIN callContextMap :
                  callContextMap[r].callSid # http'[i].callSid}
          /\ \A r \in DOMAIN callContextMap' :
               callContextMap'[r] = callContextMap[r]]_vars

\* C22 witness: two calls were created, a terminal status arrived for the
\* first, and the registry holds the entry of the second alone.
C22_Witness ==
  \E i, j, k \in 1..Len(http) :
    /\ i < j /\ j < k
    /\ http[i].route = "outbound_call" /\ http[i].status = 200
    /\ http[j].route = "outbound_call" /\ http[j].status = 200
    /\ http[k].route = "call_status"
    /\ http[k].callStatus \in TerminalStatuses
    /\ http[k].callSid = http[i].callSid
    /\ DOMAIN callContextMap = {http[j].reqId}
    /\ Lookup(http[i].reqId) = NoContext

\* Both peers of the session have reported closed: the telephony socket is
\* closed and every AI socket the session created is closed.
SessionClosed ==
  /\ twState = "closed"
  /\ ClosedSockets # {}
  /\ \A w \in WsIds : wsState[w] \in {"none", "closed"}

\* C23: once both peers of a session have reported closed, the registry holds
\* no context entry for the session's call.
C23_RegistryReleasedAtClosed ==
  SessionClosed =>
    \A r \in DOMAIN callContextMap :
      callContextMap[r].callSid # context.callSid

\* C24: a media event that arrives before any start event is ignored: it is
\* neither forwarded to the AI peer nor buffered, and it changes neither the
\* sockets nor the closed flag.
C24_MediaBeforeStartIgnored ==
  [][(Len(mediaIn') > Len(mediaIn) /\ startSid = Null)
       => /\ aiSent' = aiSent
          /\ audioBuffer' = audioBuffer
          /\ wsState' = wsState
          /\ twState' = twState
          /\ closed' = closed]_vars

\* C25: a frame of either peer that fails JSON parsing is dropped: the step
\* sends nothing to either peer and leaves the session's variables and both
\* sockets as they were.
C25_BadFrameDropped ==
  [][Len(dropped') > Len(dropped)
       => /\ aiSent' = aiSent
          /\ twSent' = twSent
          /\ UNCHANGED <<streamSid, conversationActive, audioBuffer,
                         reconnectAttempts, closed, elevenLabsWs, wsState,
                         twState, requeue, timers, fetching, idleTimer,
                         transcripts>>]_vars

\* C25 witness: a frame of each peer was dropped, and a frame that arrived
\* later from the same peer was relayed to the other.
C25_Witness ==
  /\ \E d \in 1..Len(dropped), i \in Chunks :
       /\ dropped[d].peer = "tw"
       /\ aiSent[i].ok /\ aiSent[i].val.n > dropped[d].media
  /\ \E d \in 1..Len(dropped), i \in AudioFrames :
       /\ dropped[d].peer = "ai"
       /\ twSent[i].val > dropped[d].ai

\* The conversation_initiation_client_data frames that reached AI socket w,
\* as indices.
InitFrames(w) ==
  {i \in 1..Len(aiSent) :
     /\ aiSent[i].kind = "conversation_initiation_client_data"
     /\ aiSent[i].ws = w /\ aiSent[i].ok}

\* The session's context has a script, a persona or a context.
Populated ==
  context.script # "" \/ context.persona # "" \/ context.context # ""

\* C26: with a populated context every AI socket that opens is sent one
\* conversation_initiation_client_data frame in the step of its open, no
\* socket is sent a second one, and the frame precedes every user_audio_chunk
\* on that socket; without a populated context no such frame is sent.
C26_InitFramePerOpen ==
  /\ [](\A w \in WsIds :
          /\ Cardinality(InitFrames(w)) <= 1
          /\ ~Populated => InitFrames(w) = {}
          /\ Populated =>
               \A i \in Chunks :
                 (aiSent[i].ws = w /\ aiSent[i].ok)
                   => \E j \in InitFrames(w) : j < i)
  /\ [][\A w \in WsIds :
          (wsState[w] = "connecting" /\ wsState'[w] = "open") =>
            IF Populated
              THEN /\ Len(aiSent') = Len(aiSent) + 1
                   /\ InitFrames(w)' = {Len(aiSent')}
              ELSE aiSent' = aiSent]_vars

\* C26 witness: under a context with a persona alone two sockets have opened,
\* each was sent its frame, and a caller chunk followed on the second.
C26_Witness ==
  /\ context.script = "" /\ context.persona # ""
  /\ InitFrames(1) # {} /\ InitFrames(2) # {}
  /\ \E i \in Chunks : aiSent[i].ws = 2 /\ aiSent[i].ok

\* C27: after SIGINT or SIGTERM the process eventually exits; it exits with
\* code 0 when the server finished closing before a 10 s timer fired, with
\* code 1 when a timer fired first, and it never runs on after a timer fired.
C27_ShutdownExits ==
  /\ (proc.state = "closing") ~> (proc.state = "exited")
  /\ [](proc.timerFired => proc.state = "exited")
  /\ [](proc.state = "exited" =>
          \/ proc.code = 0 /\ proc.serverClosed /\ ~proc.timerFired
          \/ proc.code = 1 /\ proc.timerFired /\ ~proc.serverClosed)

\* C27 witness: after two signals the server did not finish closing and a
\* timer forced the exit with code 1, while the session still had an AI
\* socket open.
C27_Witness ==
  /\ proc.state = "exited" /\ proc.code = 1
  /\ proc.timers = 2
  /\ IsOpen(elevenLabsWs)

\* C28: 0 <= reconnectAttempts <= MAX_ELEVENLABS_RETRIES in every state.
C28_ReconnectAttemptsInRange ==
  reconnectAttempts >= 0 /\ reconnectAttempts <= MAX_ELEVENLABS_RETRIES

\* C28 witness: after a successful open had reset the counter, failures have
\* brought it to the limit again and a further socket has closed at the limit.
C28_Witness ==
  /\ ~firstConnection
  /\ ~closed
  /\ reconnectAttempts = MAX_ELEVENLABS_RETRIES
  /\ timers = <<>> /\ fetching = 0
  /\ LiveSockets = {}
  /\ twState = "closing"

\* The delays the claim lists: 1000 ms for the first attempt, doubled for
\* each further one.
RECURSIVE ExpectedDelay(_)
ExpectedDelay(attempts) ==
  IF attempts = 1 THEN 1000 ELSE 2 * ExpectedDelay(attempts - 1)

\* C29: every step that arms a reconnect timer, after a socket close or after
\* a failed signed-URL request, increments reconnectAttempts and arms the
\* timer with 1000 * 2^(attempts - 1) ms for the incremented value: 1000,
\* 2000, 4000, ...
C29_BackoffDelay ==
  /\ [](\A a \in 1..(MAX_ELEVENLABS_RETRIES + 2) :
          Backoff(a) = ExpectedDelay(a))
  /\ [][Len(timers') > Len(timers) =>
          /\ reconnectAttempts' = reconnectAttempts + 1
          /\ timers' = Append(timers, ExpectedDelay(reconnectAttempts'))]_vars

\* C29 witness: without a successful open in between a socket has closed and
\* a signed-URL request has failed, and the second retry waits 2000 ms.
C29_Witness ==
  /\ firstConnection
  /\ elevenLabsWs = 1 /\ ClosedSockets = {1}
  /\ reconnectAttempts = 2
  /\ timers = <<2000>>

\* C30: the audio buffer is empty in every state in which the AI peer is
\* ready: once ready, no caller payload is appended to it.
C30_BufferEmptyWhileReady ==
  elevenLabsReady => audioBuffer = <<>>

\* C31: a sweep of the registry removes exactly the entries stored more than
\* 24 hours before it and leaves every other entry as it was; an entry
\* younger than 24 hours is never removed by a sweep.  A step that changes
\* the registry without answering a request is a sweep.
C31_SweepRemovesOnlyOld ==
  [][(callContextMap' # callContextMap /\ http' = http) =>
       /\ DOMAIN callContextMap' =
            {r \in DOMAIN callContextMap :
               now - callContextMap[r].timestamp <= 24 * 60 * 60 * 1000}
       /\ \A r \in DOMAIN callContextMap' :
            callContextMap'[r] = callContextMap[r]]_vars

\* C31 witness: of two calls created, the entry of one has been swept while
\* the entry of the other, exactly 24 hours old, is still in the registry.
C31_Witness ==
  \E i, j \in CreatedCalls :
    /\ placed[i].reqId \notin DOMAIN callContextMap
    /\ placed[j].reqId \in DOMAIN callContextMap
    /\ now - callContextMap[placed[j].reqId].timestamp = 24 * 60 * 60 * 1000

\* The AI connection attempts of the session that are under way: sockets
\* connecting, open or closing, signed-URL requests in flight, and backoff
\* timers pending.
AttemptsUnderWay ==
  Cardinality({w \in WsIds : wsState[w] \in {"connecting", "open", "closing"}})
    + fetching + Len(timers)

\* C32: a session has at most one AI WebSocket that is connecting or open and
\* at most one pending reconnect timer or signed-URL request in flight; a new
\* attempt starts only after the previous socket has closed or the previous
\* request has failed, so two AI connections never coexist.
C32_OneAiConnectionAtATime ==
  /\ AttemptsUnderWay <= 1
  /\ \A w \in WsIds : wsState[w] \in {"connecting", "open", "closing"} =>
                         w = elevenLabsWs

\* C32 witness: a second socket is under way after the first one has closed.
C32_Witness ==
  /\ wsState[1] = "closed"
  /\ wsState[2] = "open"

\* The effects message number n has had so far: media frames to the telephony
\* peer, pongs to the AI peer, transcript turns.
EffectsOf(n) ==
  Cardinality({i \in 1..Len(twSent) :
                 twSent[i].event = "media" /\ twSent[i].val = n})
    + Cardinality({i \in 1..Len(aiSent) :
                     aiSent[i].kind = "pong" /\ aiSent[i].val = n})
    + Cardinality({i \in 1..Len(turns) : turns[i].n = n})

\* The one effect the handling of message m has in a step: a media or clear
\* frame with the stream id of the start event, a pong with the event id, a
\* transcript turn; nothing for initiation metadata.
HandledOnce(m) ==
  /\ Len(twSent') = Len(twSent) + (IF m.type \in {"audio", "interruption"} THEN 1 ELSE 0)
  /\ Len(aiSent') = Len(aiSent) + (IF m.type = "ping" THEN 1 ELSE 0)
  /\ Len(turns') = Len(turns) + (IF m.type \in TranscriptTypes THEN 1 ELSE 0)
  /\ m.type = "audio" =>
       /\ twSent'[Len(twSent')].event = "media"
       /\ twSent'[Len(twSent')].val = m.n
       /\ twSent'[Len(twSent')].streamSid = startSid
  /\ m.type = "interruption" =>
       /\ twSent'[Len(twSent')].event = "clear"
       /\ twSent'[Len(twSent')].streamSid = startSid
  /\ m.type = "ping" =>
       /\ aiSent'[Len(aiSent')].kind = "pong"
       /\ aiSent'[Len(aiSent')].val = m.n
  /\ m.type \in TranscriptTypes =>
       /\ turns'[Len(turns')].n = m.n
       /\ turns'[Len(turns')].text = m.text
       /\ transcripts' = addTranscript(transcripts, turns'[Len(turns')].role,
                                       m.text, m.n)

C34_QuiescentAfterClose ==
  (twState = "closed") ~>
    (requeue = {} /\ timers = <<>> /\ idleTimer # "pending")


====
